---- MODULE Spec2Model ----
(***************************************************************************)
(* A model of src/app.py: a single blockchain node (Flask application)     *)
(* with an in-memory chain, a pending-transaction pool, a peer registry,   *)
(* an SQLite store (tables blocks and txs) and the longest-chain           *)
(* consensus against registered peers.                                     *)
(*                                                                         *)
(* Python values are modelled as follows.                                  *)
(*   - str: a TLA+ string.  None is the string "None".                     *)
(*   - int / float: a record [type, value]; json.dumps and SQLite's REAL   *)
(*     column affinity distinguish the two (1 is rendered "1", 1.0 is      *)
(*     rendered "1.0").  Block indices, proofs and timestamps are plain    *)
(*     naturals (a timestamp is a float that a REAL column stores          *)
(*     exactly).                                                           *)
(*   - dict: a record; list: a sequence; set: a set.                       *)
(*                                                                         *)
(* Specifications.                                                         *)
(*   Spec            startup, stop and the routes, one request at a time   *)
(*   SpecLocal       the same without GET /nodes/resolve                   *)
(*   SpecAnyShape    the routes against a peer whose block lacks "index"   *)
(*   SpecLedger      the methods new_transaction and new_block             *)
(*   SpecLedgerPeers the same with register, resolve and restarts          *)
(*   SpecRegistry    the method register_node                              *)
(*   SpecConsensus   resolve against two peers, the replies kept           *)
(*   SpecValidator   valid_chain on candidate chains                       *)
(*   SpecStore       save_block and load_chain_from_db                     *)
(*   SpecProof       proof_of_work                                         *)
(*   SpecConcurrent  two requests on two threads, statement by statement   *)
(*   SpecMineResolve a mining request and a resolve on two threads         *)
(***************************************************************************)
EXTENDS Integers, Sequences, FiniteSets, TLC

VARIABLES
    up,                     \* TRUE while the process (module body executed) runs
    chain,                  \* blockchain.chain
    current_transactions,   \* blockchain.current_transactions
    nodes,                  \* blockchain.nodes
    blocks,                 \* table blocks: rows in id (AUTOINCREMENT) order
    txs,                    \* table txs: rows in id (AUTOINCREMENT) order
    clock,                  \* the value the next call of time() returns
    last,                   \* the last request served: [op, args, result]
    pc,                     \* per worker thread: the statement it is about to run
    frame                   \* per worker thread: the locals of its handler

vars == <<up, chain, current_transactions, nodes, blocks, txs, clock, last, pc, frame>>

(***************************************************************************)
(* Bounds of the model.                                                    *)
(***************************************************************************)
MaxBlocks == 3      \* rows of table blocks: no block is minted beyond it

MaxPool == 2        \* transactions left in the pool: no request is served beyond it

(***************************************************************************)
(* Python scalars.                                                         *)
(***************************************************************************)
None == "None"

PyInt(n) == [type |-> "int", value |-> n]

PyFloat(n) == [type |-> "float", value |-> n]

\* float(x) for a JSON number x (line 166)
float(x) == PyFloat(x.value)

\* json.dumps of a number: an int prints without, a float with a fraction
json_number(x) ==
    IF x.type = "float" THEN ToString(x.value) \o ".0" ELSE ToString(x.value)

\* what a column of REAL affinity holds after an INSERT of x, and what
\* sqlite3 hands back for it: a Python float
real_affinity(x) == PyFloat(x.value)

node_identifier == "node0"

(***************************************************************************)
(* Blockchain.hash: json.dumps(block, sort_keys=True), then SHA-256.       *)
(***************************************************************************)
json_tx(t) ==
    "{amount:" \o json_number(t.amount) \o ",recipient:" \o t.recipient
        \o ",sender:" \o t.sender \o "}"

RECURSIVE json_txs(_)
json_txs(ts) ==
    IF ts = <<>> THEN ""
    ELSE json_tx(Head(ts)) \o (IF Len(ts) > 1 THEN "," ELSE "") \o json_txs(Tail(ts))

json_dumps(block) ==
    "{index:" \o ToString(block.index)
        \o ",previous_hash:" \o block.previous_hash
        \o ",proof:" \o ToString(block.proof)
        \o ",timestamp:" \o ToString(block.timestamp)
        \o ",transactions:[" \o json_txs(block.transactions) \o "]}"

\* SHA-256 is taken to be collision free: the digest of a string is the
\* string itself under a marker.
sha256_hexdigest(s) == "sha256(" \o s \o ")"

hash(block) == sha256_hexdigest(json_dumps(block))

(***************************************************************************)
(* Proof of work.  The guess is the decimal text of last_proof followed by *)
(* the decimal text of proof; it is represented by the number that text    *)
(* denotes.  The digest test (four leading zero nibbles, one guess in      *)
(* 16^4) is scaled down to one guess in Difficulty: a guess passes when    *)
(* Difficulty divides it.                                                  *)
(***************************************************************************)
Difficulty == 7

RECURSIVE Digits(_)
Digits(n) == IF n < 10 THEN 1 ELSE 1 + Digits(n \div 10)

RECURSIVE Pow10(_)
Pow10(k) == IF k = 0 THEN 1 ELSE 10 * Pow10(k - 1)

guess(last_proof, proof) == last_proof * Pow10(Digits(proof)) + proof

startswith_0000(g) == g % Difficulty = 0

valid_proof(last_proof, proof) == startswith_0000(guess(last_proof, proof))

RECURSIVE pow_search(_, _)
pow_search(last_proof, proof) ==
    IF valid_proof(last_proof, proof) THEN proof
    ELSE pow_search(last_proof, proof + 1)

\* a faulty proof_of_work: the search starts at 1
proof_of_work_from_one(last_proof) == pow_search(last_proof, 1)

proof_of_work(last_proof) == pow_search(last_proof, 0)

(***************************************************************************)
(* Blockchain.valid_chain                                                  *)
(***************************************************************************)
\* a faulty valid_chain: the previous_hash comparison is left out
valid_chain_proofs_only(c) ==
    /\ c # <<>>
    /\ \A i \in 2..Len(c) : valid_proof(c[i - 1].proof, c[i].proof)

valid_chain(c) ==
    /\ c # <<>>
    /\ \A i \in 2..Len(c) :
          /\ c[i].previous_hash = hash(c[i - 1])
          /\ valid_proof(c[i - 1].proof, c[i].proof)

(***************************************************************************)
(* SQLite persistence.  db is the pair of tables [blocks, txs]; a row's id *)
(* is its position (AUTOINCREMENT, rows are never deleted).                *)
(***************************************************************************)
RECURSIVE tx_rows(_, _)
tx_rows(block_idx, ts) ==
    IF ts = <<>> THEN <<>>
    ELSE <<[block_idx |-> block_idx, sender |-> Head(ts).sender,
            recipient |-> Head(ts).recipient,
            amount |-> real_affinity(Head(ts).amount)]>>
         \o tx_rows(block_idx, Tail(ts))

save_block(db, block) ==
    [blocks |-> Append(db.blocks,
                    [idx |-> block.index, ts |-> block.timestamp,
                     proof |-> block.proof, previous_hash |-> block.previous_hash]),
     txs |-> db.txs \o tx_rows(block.index, block.transactions)]

\* the orders in which SELECT ... FROM blocks ORDER BY idx ASC may return the
\* rows with ids in S: ascending idx, rows of equal idx in any order
RECURSIVE order_by_idx(_, _)
order_by_idx(rows, S) ==
    IF S = {} THEN {<<>>}
    ELSE UNION {{<<i>> \o rest : rest \in order_by_idx(rows, S \ {i})} :
                 i \in {j \in S : \A k \in S : rows[j].idx <= rows[k].idx}}

\* SELECT sender, recipient, amount FROM txs WHERE block_idx=? ORDER BY id ASC
RECURSIVE select_txs(_, _)
select_txs(rows, idx) ==
    IF rows = <<>> THEN <<>>
    ELSE (IF Head(rows).block_idx = idx
          THEN <<[sender |-> Head(rows).sender, recipient |-> Head(rows).recipient,
                  amount |-> Head(rows).amount]>>
          ELSE <<>>)
         \o select_txs(Tail(rows), idx)

\* load_chain_from_db, the SELECT on blocks having returned the rows in `order`
load_chain_from_db(db, order) ==
    [k \in 1..Len(order) |->
        LET row == db.blocks[order[k]]
        IN [index |-> row.idx, timestamp |-> row.ts,
            transactions |-> select_txs(db.txs, row.idx),
            proof |-> row.proof, previous_hash |-> row.previous_hash]]

(***************************************************************************)
(* class Blockchain.  A method is an operator from the state w it finds,   *)
(* [chain, current_transactions, nodes, blocks, txs, clock], to the state  *)
(* it leaves.                                                              *)
(***************************************************************************)
Blockchain(w) == [w EXCEPT !.current_transactions = <<>>, !.chain = <<>>, !.nodes = {}]

last_block(w) == w.chain[Len(w.chain)]

\* `x or y` takes y when x is None or the empty string
Falsy(x) == x \in {None, ""}

\* lines 64-70: the dict new_block builds
build_block(w, proof, previous_hash) ==
    [index |-> Len(w.chain) + 1,
     timestamp |-> w.clock,
     transactions |-> w.current_transactions,
     proof |-> proof,
     previous_hash |-> IF Falsy(previous_hash)
                       THEN hash(w.chain[Len(w.chain)])
                       ELSE previous_hash]

\* a faulty new_block: the pool is not replaced by an empty list
new_block_keeps_pool(w, proof, previous_hash) ==
    LET block == build_block(w, proof, previous_hash)
        db == save_block([blocks |-> w.blocks, txs |-> w.txs], block)
    IN [w EXCEPT !.clock = w.clock + 1,
                 !.chain = Append(w.chain, block),
                 !.blocks = db.blocks,
                 !.txs = db.txs]

new_block(w, proof, previous_hash) ==
    LET block == build_block(w, proof, previous_hash)
        db == save_block([blocks |-> w.blocks, txs |-> w.txs], block)
    IN [w EXCEPT !.clock = w.clock + 1,
                 !.current_transactions = <<>>,
                 !.chain = Append(w.chain, block),
                 !.blocks = db.blocks,
                 !.txs = db.txs]

new_transaction(w, sender, recipient, amount) ==
    [w EXCEPT !.current_transactions =
        Append(w.current_transactions,
               [sender |-> sender, recipient |-> recipient, amount |-> amount])]

\* the value new_transaction returns
new_transaction_index(w) ==
    IF w.chain # <<>> THEN last_block(w).index + 1 ELSE 1

\* line 78 raises KeyError when the head block has no "index" (a dict is a
\* record, a missing key a field outside its domain); the transaction has
\* been appended by then
new_transaction_raises(w) ==
    w.chain # <<>> /\ "index" \notin DOMAIN last_block(w)

(***************************************************************************)
(* Blockchain.register_node.  urlparse is tabulated on the addresses the   *)
(* model registers: text before "://" is the scheme, the text up to the    *)
(* next "/" the netloc; a bare host:port whose host starts with a digit    *)
(* has neither, and for a bare name:port the name is taken for the scheme  *)
(* and there is no netloc.                                                 *)
(***************************************************************************)
Addresses ==
    {"192.168.1.5:5000", "http://192.168.1.5:5000", "http://10.0.0.2:5000/chain",
     "localhost:5000", "http://localhost:5000/"}

urlparse(address) ==
    CASE address = "http://192.168.1.5:5000" ->
            [scheme |-> "http", netloc |-> "192.168.1.5:5000"]
      [] address = "http://10.0.0.2:5000/chain" ->
            [scheme |-> "http", netloc |-> "10.0.0.2:5000"]
      [] address = "http://localhost:5000/" ->
            [scheme |-> "http", netloc |-> "localhost:5000"]
      [] address = "localhost:5000" ->
            [scheme |-> "localhost", netloc |-> ""]
      [] OTHER -> [scheme |-> "", netloc |-> ""]

\* a faulty register_node: an address with a scheme is stored as given
register_node_as_given(w, address) ==
    LET parsed == urlparse(address)
    IN IF parsed.scheme # "" /\ parsed.netloc # ""
       THEN [w EXCEPT !.nodes = @ \cup {address}]
       ELSE [w EXCEPT !.nodes = @ \cup {"http://" \o address}]

register_node(w, address) ==
    LET parsed == urlparse(address)
    IN IF parsed.scheme # "" /\ parsed.netloc # ""
       THEN [w EXCEPT !.nodes = @ \cup {parsed.scheme \o "://" \o parsed.netloc}]
       ELSE [w EXCEPT !.nodes = @ \cup {"http://" \o address}]

(***************************************************************************)
(* What GET <node>/chain may bring back.  A reply is [kind, length, chain]:*)
(*   "unreachable"  requests.get raises a RequestException                 *)
(*   "status"       a status code other than 200                           *)
(*   "notjson"      200, the body is not JSON: response.json() raises      *)
(*   "json"         200, a JSON object; length is <<>> for a missing or    *)
(*                  null "length" and <<n>> for the number n; chain is     *)
(*                  <<>> for a missing, null or empty "chain"              *)
(***************************************************************************)
MaxPeerLen == 3     \* the longest chain a peer serves

peer_identifier == "node1"

\* the chain of a peer that ran this program: genesis, then n - 1 GET /mine
RECURSIVE PeerChain(_)
PeerChain(n) ==
    IF n = 1
    THEN <<[index |-> 1, timestamp |-> 0, transactions |-> <<>>,
            proof |-> 100, previous_hash |-> "1"]>>
    ELSE LET c == PeerChain(n - 1)
         IN Append(c, [index |-> n, timestamp |-> 0,
                       transactions |-> <<[sender |-> "0", recipient |-> peer_identifier,
                                           amount |-> PyInt(1)]>>,
                       proof |-> proof_of_work(c[n - 1].proof),
                       previous_hash |-> hash(c[n - 1])])

Tampered(c) == [c EXCEPT ![Len(c)].previous_hash = "bad"]

Reply(kind, length, c) == [kind |-> kind, length |-> length, chain |-> c]

Replies ==
    {Reply(k, <<>>, <<>>) : k \in {"unreachable", "status", "notjson"}}
    \cup {Reply("json", <<n>>, PeerChain(n)) : n \in 1..MaxPeerLen}
    \cup {Reply("json", <<MaxPeerLen>>, Tampered(PeerChain(MaxPeerLen))),
          Reply("json", <<MaxPeerLen + 1>>, PeerChain(1)),
          Reply("json", <<>>, PeerChain(MaxPeerLen)),
          Reply("json", <<MaxPeerLen>>, <<>>)}

(***************************************************************************)
(* Blockchain.resolve_conflicts, the set self.nodes being iterated in      *)
(* `order` and node n answering resp[n].  The loop's state is              *)
(* [raised, max_length, new_chain]; new_chain is <<>> for None.            *)
(***************************************************************************)
Truthy(length) == length # <<>> /\ length[1] # 0

RECURSIVE resolve_loop(_, _, _)
resolve_loop(order, resp, acc) ==
    IF order = <<>> THEN acc
    ELSE LET r == resp[Head(order)]
         IN CASE r.kind \in {"unreachable", "status"} ->
                    resolve_loop(Tail(order), resp, acc)
              [] r.kind = "notjson" ->
                    [acc EXCEPT !.raised = TRUE]
              [] OTHER ->
                    IF /\ Truthy(r.length)
                       /\ r.chain # <<>>
                       /\ r.length[1] > acc.max_length
                       /\ valid_chain(r.chain)
                    THEN resolve_loop(Tail(order), resp,
                            [acc EXCEPT !.max_length = r.length[1], !.new_chain = r.chain])
                    ELSE resolve_loop(Tail(order), resp, acc)

\* [raised, replaced, w]: whether an exception left the method, the value it
\* returned otherwise, and the state it leaves
resolve_conflicts(w, order, resp) ==
    LET acc == resolve_loop(order, resp,
                   [raised |-> FALSE, max_length |-> Len(w.chain), new_chain |-> <<>>])
    IN IF acc.raised THEN [raised |-> TRUE, replaced |-> FALSE, w |-> w]
       ELSE IF acc.new_chain # <<>>
            THEN [raised |-> FALSE, replaced |-> TRUE,
                  w |-> [w EXCEPT !.chain = acc.new_chain]]
            ELSE [raised |-> FALSE, replaced |-> FALSE, w |-> w]

\* the orders in which a for loop may iterate over the set S
RECURSIVE Orders(_)
Orders(S) ==
    IF S = {} THEN {<<>>}
    ELSE UNION {{<<n>> \o rest : rest \in Orders(S \ {n})} : n \in S}

(***************************************************************************)
(* The routes.  A route is an operator from the state it finds and its     *)
(* request to [status, message, w]: the HTTP status, the "message" of the  *)
(* response and the state it leaves.  An exception that leaves the view    *)
(* function is status 500.                                                 *)
(***************************************************************************)
required == {"sender", "recipient", "amount"}

\* the JSON bodies POSTed to /transactions/new: a complete one, one without
\* "amount", one whose amount is the JSON string "abc"
Bodies ==
    {[sender |-> "a", recipient |-> "b", amount |-> PyInt(5)],
     [sender |-> "a", recipient |-> "b"],
     [sender |-> "a", recipient |-> "b", amount |-> [type |-> "str", value |-> "abc"]]}

new_transaction_route(w, values) ==
    IF ~(\A k \in required : k \in DOMAIN values)
    THEN [status |-> 400, message |-> "Missing values", w |-> w]
    ELSE IF values.amount.type = "str"
    THEN [status |-> 500, message |-> "ValueError", w |-> w]
    ELSE LET w1 == new_transaction(w, values.sender, values.recipient, float(values.amount))
             last_proof == last_block(w1).proof
             proof == proof_of_work(last_proof)
             w2 == new_transaction(w1, "0", node_identifier, PyInt(1))
         IN IF new_transaction_raises(w1)
            THEN [status |-> 500, message |-> "KeyError", w |-> w1]
            ELSE [status |-> 201, message |-> "Transaction stored and block mined",
                  w |-> new_block(w2, proof, None)]

\* a faulty mine_route: the reward transaction is not recorded
mine_route_no_reward(w) ==
    LET last_proof == last_block(w).proof
        proof == proof_of_work(last_proof)
    IN [status |-> 200, message |-> "New Block Forged", w |-> new_block(w, proof, None)]

mine_route(w) ==
    LET last_proof == last_block(w).proof
        proof == proof_of_work(last_proof)
        w1 == new_transaction(w, "0", node_identifier, PyInt(1))
    IN IF new_transaction_raises(w1)
       THEN [status |-> 500, message |-> "KeyError", w |-> w1]
       ELSE [status |-> 200, message |-> "New Block Forged",
             w |-> new_block(w1, proof, None)]

full_chain(w) == [status |-> 200, message |-> "", w |-> w]

RECURSIVE register_all(_, _)
register_all(w, list) ==
    IF list = <<>> THEN w
    ELSE register_all(register_node(w, Head(list)), Tail(list))

\* the "nodes" lists POSTed to /nodes/register; <<>> is a missing or empty one.
\* NodeLists name one peer in its two forms, PeerLists a second peer too.
NodeLists == {<<>>, <<"192.168.1.5:5000">>, <<"http://192.168.1.5:5000">>}

PeerLists ==
    NodeLists \cup {<<"http://10.0.0.2:5000/chain">>,
                    <<"192.168.1.5:5000", "http://10.0.0.2:5000/chain">>}

register_nodes(w, list) ==
    IF list = <<>>
    THEN [status |-> 400, message |-> "Please supply a non-empty list", w |-> w]
    ELSE [status |-> 201, message |-> "New nodes have been added",
          w |-> register_all(w, list)]

consensus(w, order, resp) ==
    LET r == resolve_conflicts(w, order, resp)
    IN IF r.raised THEN [status |-> 500, message |-> "Exception", w |-> w]
       ELSE IF r.replaced
            THEN [status |-> 200, message |-> "Our chain was replaced", w |-> r.w]
            ELSE [status |-> 200, message |-> "Our chain is authoritative", w |-> r.w]

(***************************************************************************)
(* The state machine: requests served one at a time, one peer to register. *)
(***************************************************************************)
Threads == {1, 2}

World ==
    [chain |-> chain, current_transactions |-> current_transactions, nodes |-> nodes,
     blocks |-> blocks, txs |-> txs, clock |-> clock]

Install(w) ==
    /\ chain' = w.chain
    /\ current_transactions' = w.current_transactions
    /\ nodes' = w.nodes
    /\ blocks' = w.blocks
    /\ txs' = w.txs
    /\ clock' = w.clock

Served(op, args, r) ==
    /\ Install(r.w)
    /\ last' = [op |-> op, args |-> args, status |-> r.status, message |-> r.message]

Init ==
    /\ up = FALSE
    /\ chain = <<>>
    /\ current_transactions = <<>>
    /\ nodes = {}
    /\ blocks = <<>>
    /\ txs = <<>>
    /\ clock = 1
    /\ last = [op |-> "none", args |-> <<>>, status |-> 0, message |-> ""]
    /\ pc = [t \in Threads |-> "idle"]
    /\ frame = [t \in Threads |-> <<>>]

\* a faulty startup: the genesis block is created whatever the store holds
startup_always_genesis(w, order) ==
    [status |-> 0, message |-> "genesis", w |-> new_block(Blockchain(w), 100, "1")]

\* a faulty startup: no genesis block is created on an empty store
startup_no_genesis(w, order) ==
    LET w0 == Blockchain(w)
        _db_chain == load_chain_from_db([blocks |-> w.blocks, txs |-> w.txs], order)
    IN [status |-> 0, message |-> "loaded", w |-> [w0 EXCEPT !.chain = _db_chain]]

\* lines 144-152: the module body, run when the process starts.  last.args
\* keeps the chain the previous process held when it was stopped.
startup(w, order) ==
    LET w0 == Blockchain(w)
        _db_chain == load_chain_from_db([blocks |-> w.blocks, txs |-> w.txs], order)
    IN IF _db_chain # <<>>
       THEN [status |-> 0, message |-> "loaded", w |-> [w0 EXCEPT !.chain = _db_chain]]
       ELSE [status |-> 0, message |-> "genesis", w |-> new_block(w0, 100, "1")]

Startup ==
    /\ ~up
    /\ up' = TRUE
    /\ \E order \in order_by_idx(blocks, 1..Len(blocks)) :
          Served("startup", last.args, startup(World, order))
    /\ UNCHANGED <<pc, frame>>

\* the process is stopped between two requests; its memory is lost
Stop ==
    /\ up
    /\ up' = FALSE
    /\ chain' = <<>>
    /\ current_transactions' = <<>>
    /\ nodes' = {}
    /\ last' = [op |-> "stop", args |-> chain, status |-> 0, message |-> ""]
    /\ UNCHANGED <<blocks, txs, clock, pc, frame>>

NewTransaction ==
    /\ up
    /\ Len(blocks) < MaxBlocks
    /\ Len(current_transactions) < MaxPool
    /\ \E values \in Bodies :
          Served("new_transaction", values, new_transaction_route(World, values))
    /\ UNCHANGED <<up, pc, frame>>

Mine ==
    /\ up
    /\ Len(blocks) < MaxBlocks
    /\ Len(current_transactions) < MaxPool
    /\ Served("mine", <<>>, mine_route(World))
    /\ UNCHANGED <<up, pc, frame>>

FullChain ==
    /\ up
    /\ Served("chain", <<>>, full_chain(World))
    /\ UNCHANGED <<up, pc, frame>>

Register ==
    /\ up
    /\ \E list \in NodeLists : Served("register", list, register_nodes(World, list))
    /\ UNCHANGED <<up, pc, frame>>

RegisterPeers ==
    /\ up
    /\ \E list \in PeerLists : Served("register", list, register_nodes(World, list))
    /\ UNCHANGED <<up, pc, frame>>

Resolve ==
    /\ up
    /\ \E order \in Orders(nodes) : \E resp \in [nodes -> Replies] :
          Served("resolve", <<>>, consensus(World, order, resp))
    /\ UNCHANGED <<up, pc, frame>>

Next ==
    \/ Startup
    \/ Stop
    \/ NewTransaction
    \/ Mine
    \/ FullChain
    \/ Register
    \/ Resolve

Spec == Init /\ [][Next]_vars

(***************************************************************************)
(* The methods of the ledger called one at a time, in any order:           *)
(* new_transaction (record_transaction) and new_block (mint_block).        *)
(***************************************************************************)
Transactions ==
    {[sender |-> "a", recipient |-> "b", amount |-> PyFloat(5)],
     [sender |-> "0", recipient |-> node_identifier, amount |-> PyInt(1)]}

RecordTransaction ==
    /\ up
    /\ Len(current_transactions) < MaxPool
    /\ \E t \in Transactions :
          Served("record_transaction", t,
                 [status |-> new_transaction_index(World), message |-> "",
                  w |-> new_transaction(World, t.sender, t.recipient, t.amount)])
    /\ UNCHANGED <<up, pc, frame>>

MintBlock ==
    /\ up
    /\ Len(blocks) < MaxBlocks
    /\ Served("mint_block", <<>>,
               [status |-> 0, message |-> "",
                w |-> new_block(World, proof_of_work(last_block(World).proof), None)])
    /\ UNCHANGED <<up, pc, frame>>

NextLedger ==
    \/ Startup
    \/ RecordTransaction
    \/ MintBlock

SpecLedger == Init /\ [][NextLedger]_vars

(***************************************************************************)
(* The methods of the ledger on a node that also registers a peer,         *)
(* resolves against it and is restarted.                                   *)
(***************************************************************************)
NextLedgerPeers ==
    \/ Startup
    \/ Stop
    \/ Register
    \/ Resolve
    \/ RecordTransaction
    \/ MintBlock

SpecLedgerPeers == Init /\ [][NextLedgerPeers]_vars

(***************************************************************************)
(* Consensus against two peers, the replies to the last GET /nodes/resolve *)
(* being kept in last.args.                                                *)
(***************************************************************************)
ResolveReplies ==
    /\ up
    /\ \E order \in Orders(nodes) : \E resp \in [nodes -> Replies] :
          Served("resolve", resp, consensus(World, order, resp))
    /\ UNCHANGED <<up, pc, frame>>

NextConsensus ==
    \/ Startup
    \/ Mine
    \/ RegisterPeers
    \/ ResolveReplies

SpecConsensus == Init /\ [][NextConsensus]_vars

\* the requests that touch no peer: the store is written by genesis creation
\* and minted blocks only
NextLocal ==
    \/ Startup
    \/ Stop
    \/ NewTransaction
    \/ Mine
    \/ FullChain
    \/ Register

SpecLocal == Init /\ [][NextLocal]_vars

(***************************************************************************)
(* Requests served one at a time against a peer that may also answer with  *)
(* a chain whose one block has no "index": valid_chain reads no field of   *)
(* a one-block chain, so resolve_conflicts adopts it.                      *)
(***************************************************************************)
NoIndexChain ==
    <<[timestamp |-> 0, transactions |-> <<>>, proof |-> 100, previous_hash |-> "1"]>>

RepliesAnyShape == Replies \cup {Reply("json", <<MaxPeerLen + 1>>, NoIndexChain)}

ResolveAnyShape ==
    /\ up
    /\ \E order \in Orders(nodes) : \E resp \in [nodes -> RepliesAnyShape] :
          Served("resolve", <<>>, consensus(World, order, resp))
    /\ UNCHANGED <<up, pc, frame>>

NextAnyShape ==
    \/ Startup
    \/ NewTransaction
    \/ Mine
    \/ FullChain
    \/ Register
    \/ ResolveAnyShape

SpecAnyShape == Init /\ [][NextAnyShape]_vars

(***************************************************************************)
(* Requests served concurrently: the development server runs every request *)
(* on a thread of its own and the handlers take no lock.  A thread runs    *)
(* one statement of mine_route / new_transaction_route (and of new_block,  *)
(* which they call) per step.  frame[t].block is the dict new_block has    *)
(* built; its "transactions" is the very list object of the pool until     *)
(* some thread rebinds self.current_transactions (line 71), so an append   *)
(* to the pool before that also shows in the block (frame[t].aliased).     *)
(***************************************************************************)
Minting == {t \in Threads : pc[t] # "idle"}

Begin(t) ==
    /\ up
    /\ pc[t] = "idle"
    /\ Len(blocks) + Cardinality(Minting) < MaxBlocks
    /\ \E route \in {"mine", "new_transaction"} :
          /\ pc' = [pc EXCEPT ![t] = IF route = "mine" THEN "last_proof" ELSE "record"]
          /\ frame' = [frame EXCEPT ![t] =
                [route |-> route, proof |-> 0, block |-> <<>>, aliased |-> FALSE]]
    /\ UNCHANGED <<up, chain, current_transactions, nodes, blocks, txs, clock, last>>

\* list.append on the pool: the blocks that still share the list see it too
PoolAppend(t, tx) ==
    /\ current_transactions' = Append(current_transactions, tx)
    /\ frame' = [u \in Threads |->
          IF u # t /\ pc[u] = "clear" /\ frame[u].aliased
          THEN [frame[u] EXCEPT !.block.transactions = Append(@, tx)]
          ELSE frame[u]]

\* line 166
Record(t) ==
    /\ pc[t] = "record"
    /\ PoolAppend(t, [sender |-> "a", recipient |-> "b", amount |-> float(PyInt(5))])
    /\ pc' = [pc EXCEPT ![t] = "last_proof"]
    /\ UNCHANGED <<up, chain, nodes, blocks, txs, clock, last>>

\* lines 167-168 and 183-184
LastProof(t) ==
    /\ pc[t] = "last_proof"
    /\ frame' = [frame EXCEPT ![t].proof = proof_of_work(last_block(World).proof)]
    /\ pc' = [pc EXCEPT ![t] = "reward"]
    /\ UNCHANGED <<up, chain, current_transactions, nodes, blocks, txs, clock, last>>

\* lines 169 and 185
RewardTx(t) ==
    /\ pc[t] = "reward"
    /\ PoolAppend(t, [sender |-> "0", recipient |-> node_identifier, amount |-> PyInt(1)])
    /\ pc' = [pc EXCEPT ![t] = "build"]
    /\ UNCHANGED <<up, chain, nodes, blocks, txs, clock, last>>

\* lines 64-70
Build(t) ==
    /\ pc[t] = "build"
    /\ frame' = [frame EXCEPT ![t].block = build_block(World, frame[t].proof, None),
                              ![t].aliased = TRUE]
    /\ clock' = clock + 1
    /\ pc' = [pc EXCEPT ![t] = "clear"]
    /\ UNCHANGED <<up, chain, current_transactions, nodes, blocks, txs, last>>

\* line 71
Clear(t) ==
    /\ pc[t] = "clear"
    /\ current_transactions' = <<>>
    /\ frame' = [u \in Threads |->
          IF frame[u] # <<>> THEN [frame[u] EXCEPT !.aliased = FALSE] ELSE frame[u]]
    /\ pc' = [pc EXCEPT ![t] = "append"]
    /\ UNCHANGED <<up, chain, nodes, blocks, txs, clock, last>>

\* line 72
AppendBlock(t) ==
    /\ pc[t] = "append"
    /\ chain' = Append(chain, frame[t].block)
    /\ pc' = [pc EXCEPT ![t] = "save"]
    /\ UNCHANGED <<up, current_transactions, nodes, blocks, txs, clock, last, frame>>

\* lines 73-74, then the response of the route
SaveBlock(t) ==
    /\ pc[t] = "save"
    /\ LET db == save_block([blocks |-> blocks, txs |-> txs], frame[t].block)
       IN blocks' = db.blocks /\ txs' = db.txs
    /\ last' = [op |-> frame[t].route, args |-> frame[t].block,
                status |-> IF frame[t].route = "mine" THEN 200 ELSE 201,
                message |-> ""]
    /\ pc' = [pc EXCEPT ![t] = "idle"]
    /\ frame' = [frame EXCEPT ![t] = <<>>]
    /\ UNCHANGED <<up, chain, current_transactions, nodes, clock>>

NextConcurrent ==
    \/ Startup
    \/ \E t \in Threads : Begin(t)
    \/ \E t \in Threads : Record(t)
    \/ \E t \in Threads : LastProof(t)
    \/ \E t \in Threads : RewardTx(t)
    \/ \E t \in Threads : Build(t)
    \/ \E t \in Threads : Clear(t)
    \/ \E t \in Threads : AppendBlock(t)
    \/ \E t \in Threads : SaveBlock(t)

SpecConcurrent == Init /\ [][NextConcurrent]_vars

(***************************************************************************)
(* A mining request and GET /nodes/resolve served concurrently: thread 1   *)
(* runs mine_route / new_transaction_route statement by statement as       *)
(* above, thread 2 runs resolve_conflicts.  resolve_conflicts reads        *)
(* len(self.chain) once (line 124), asks the peers and validates their     *)
(* chains without touching the node's state (lines 125-137), and only then *)
(* rebinds self.chain (lines 138-139).                                     *)
(***************************************************************************)
Miner == 1

Resolver == 2

\* lines 122-137; frame.new_chain is <<>> for None
ResolveFetch(t) ==
    /\ up
    /\ pc[t] = "idle"
    /\ \E order \in Orders(nodes) : \E resp \in [nodes -> Replies] :
          LET acc == resolve_loop(order, resp,
                        [raised |-> FALSE, max_length |-> Len(chain), new_chain |-> <<>>])
          IN IF acc.raised
             THEN /\ last' = [op |-> "resolve", args |-> <<>>, status |-> 500,
                              message |-> "Exception"]
                  /\ UNCHANGED <<pc, frame>>
             ELSE /\ pc' = [pc EXCEPT ![t] = "assign"]
                  /\ frame' = [frame EXCEPT ![t] =
                        [route |-> "resolve", proof |-> 0, block |-> <<>>,
                         aliased |-> FALSE, new_chain |-> acc.new_chain]]
                  /\ UNCHANGED last
    /\ UNCHANGED <<up, chain, current_transactions, nodes, blocks, txs, clock>>

\* lines 138-141, then the response of the route
ResolveAssign(t) ==
    /\ pc[t] = "assign"
    /\ IF frame[t].new_chain # <<>>
       THEN /\ chain' = frame[t].new_chain
            /\ last' = [op |-> "resolve", args |-> <<>>, status |-> 200,
                        message |-> "Our chain was replaced"]
       ELSE /\ chain' = chain
            /\ last' = [op |-> "resolve", args |-> <<>>, status |-> 200,
                        message |-> "Our chain is authoritative"]
    /\ pc' = [pc EXCEPT ![t] = "idle"]
    /\ frame' = [frame EXCEPT ![t] = <<>>]
    /\ UNCHANGED <<up, current_transactions, nodes, blocks, txs, clock>>

NextMineResolve ==
    \/ Startup
    \/ Register
    \/ Begin(Miner)
    \/ Record(Miner)
    \/ LastProof(Miner)
    \/ RewardTx(Miner)
    \/ Build(Miner)
    \/ Clear(Miner)
    \/ AppendBlock(Miner)
    \/ SaveBlock(Miner)
    \/ ResolveFetch(Resolver)
    \/ ResolveAssign(Resolver)

SpecMineResolve == Init /\ [][NextMineResolve]_vars

(***************************************************************************)
(* valid_chain applied to candidate chains: a candidate is drawn, checked, *)
(* and one of its blocks is given another previous_hash and checked again. *)
(* The candidates are the chains a node of this program builds, of up to   *)
(* MaxPeerLen blocks, each block minted by GET /mine or by a POST to       *)
(* /transactions/new, and the empty chain.  last.message is the verdict of *)
(* valid_chain on `chain`.                                                 *)
(***************************************************************************)
Pools ==
    {<<[sender |-> "0", recipient |-> peer_identifier, amount |-> PyInt(1)]>>,
     <<[sender |-> "a", recipient |-> "b", amount |-> PyFloat(5)],
       [sender |-> "0", recipient |-> peer_identifier, amount |-> PyInt(1)]>>}

RECURSIVE BuiltChains(_)
BuiltChains(n) ==
    IF n = 1
    THEN {<<build_block([chain |-> <<>>, clock |-> ts, current_transactions |-> <<>>],
                        100, "1")>> : ts \in {0, 1}}
    ELSE {Append(c, build_block([chain |-> c, clock |-> n, current_transactions |-> pool],
                                proof_of_work(c[Len(c)].proof), None)) :
            c \in BuiltChains(n - 1), pool \in Pools}

Candidates == {<<>>} \cup UNION {BuiltChains(n) : n \in 1..MaxPeerLen}

Verdict(c) == IF valid_chain(c) THEN "True" ELSE "False"

InitValidator ==
    /\ up = FALSE
    /\ chain \in Candidates
    /\ current_transactions = <<>>
    /\ nodes = {}
    /\ blocks = <<>>
    /\ txs = <<>>
    /\ clock = 1
    /\ last = [op |-> "candidate", args |-> <<>>, status |-> 0, message |-> ""]
    /\ pc = [t \in Threads |-> "idle"]
    /\ frame = [t \in Threads |-> <<>>]

Validate ==
    /\ last.op = "candidate"
    /\ last' = [op |-> "valid_chain", args |-> chain, status |-> 0,
                message |-> Verdict(chain)]
    /\ UNCHANGED <<up, chain, current_transactions, nodes, blocks, txs, clock, pc, frame>>

TamperValues(c) == {"1", "bad"} \cup {hash(c[j]) : j \in 1..Len(c)}

\* last.args keeps the untampered chain, last.status the position tampered with
Tamper ==
    /\ last.op = "valid_chain"
    /\ \E i \in 1..Len(chain) : \E h \in TamperValues(chain) \ {chain[i].previous_hash} :
          /\ chain' = [chain EXCEPT ![i].previous_hash = h]
          /\ last' = [op |-> "tamper", args |-> chain, status |-> i,
                      message |-> Verdict([chain EXCEPT ![i].previous_hash = h])]
    /\ UNCHANGED <<up, current_transactions, nodes, blocks, txs, clock, pc, frame>>

NextValidator ==
    \/ Validate
    \/ Tamper

SpecValidator == InitValidator /\ [][NextValidator]_vars

(***************************************************************************)
(* The store on its own: the blocks of a chain built by this program are   *)
(* handed to save_block one after the other, a save may be retried with    *)
(* the block just saved, and load_chain_from_db reads the store back.      *)
(* last.status is the number of blocks of `chain` saved so far.            *)
(***************************************************************************)
InitStore ==
    /\ up = FALSE
    /\ chain \in Candidates \ {<<>>}
    /\ current_transactions = <<>>
    /\ nodes = {}
    /\ blocks = <<>>
    /\ txs = <<>>
    /\ clock = 1
    /\ last = [op |-> "chain", args |-> <<>>, status |-> 0, message |-> ""]
    /\ pc = [t \in Threads |-> "idle"]
    /\ frame = [t \in Threads |-> <<>>]

Save ==
    /\ last.op \in {"chain", "save_block", "save_again"}
    /\ last.status < Len(chain)
    /\ LET block == chain[last.status + 1]
           db == save_block([blocks |-> blocks, txs |-> txs], block)
       IN /\ blocks' = db.blocks
          /\ txs' = db.txs
          /\ last' = [op |-> "save_block", args |-> block, status |-> last.status + 1,
                      message |-> ""]
    /\ UNCHANGED <<up, chain, current_transactions, nodes, clock, pc, frame>>

\* save_block called a second time with the block it was just called with
SaveAgain ==
    /\ last.op = "save_block"
    /\ LET db == save_block([blocks |-> blocks, txs |-> txs], last.args)
       IN /\ blocks' = db.blocks
          /\ txs' = db.txs
          /\ last' = [last EXCEPT !.op = "save_again"]
    /\ UNCHANGED <<up, chain, current_transactions, nodes, clock, pc, frame>>

\* last.args keeps the chain whose blocks were saved
Load ==
    /\ last.op \in {"save_block", "save_again"}
    /\ \E order \in order_by_idx(blocks, 1..Len(blocks)) :
          chain' = load_chain_from_db([blocks |-> blocks, txs |-> txs], order)
    /\ last' = [op |-> "load_chain_from_db", args |-> SubSeq(chain, 1, last.status),
                status |-> last.status, message |-> ""]
    /\ UNCHANGED <<up, current_transactions, nodes, blocks, txs, clock, pc, frame>>

NextStore ==
    \/ Save
    \/ SaveAgain
    \/ Load

SpecStore == InitStore /\ [][NextStore]_vars

(***************************************************************************)
(* proof_of_work on its own: a last_proof is drawn (last.status) and       *)
(* proof_of_work is applied to it; afterwards last.args is the last_proof  *)
(* and last.status the proof returned.                                     *)
(***************************************************************************)
MaxLastProof == 120     \* the largest last_proof drawn

InitProof ==
    /\ up = FALSE
    /\ chain = <<>>
    /\ current_transactions = <<>>
    /\ nodes = {}
    /\ blocks = <<>>
    /\ txs = <<>>
    /\ clock = 1
    /\ \E last_proof \in 0..MaxLastProof :
          last = [op |-> "last_proof", args |-> <<>>, status |-> last_proof, message |-> ""]
    /\ pc = [t \in Threads |-> "idle"]
    /\ frame = [t \in Threads |-> <<>>]

Solve ==
    /\ last.op = "last_proof"
    /\ last' = [op |-> "proof_of_work", args |-> last.status,
                status |-> proof_of_work(last.status), message |-> ""]
    /\ UNCHANGED <<up, chain, current_transactions, nodes, blocks, txs, clock, pc, frame>>

NextProof == Solve

SpecProof == InitProof /\ [][NextProof]_vars

(***************************************************************************)
(* The registry: register_node called with one address at a time, between  *)
(* recorded transactions.  last.status is the size of the registry before  *)
(* the call.                                                               *)
(***************************************************************************)
RegisterNode ==
    /\ up
    /\ \E address \in Addresses :
          Served("register_node", address,
                 [status |-> Cardinality(nodes), message |-> "",
                  w |-> register_node(World, address)])
    /\ UNCHANGED <<up, pc, frame>>

NextRegistry ==
    \/ Startup
    \/ RecordTransaction
    \/ RegisterNode

SpecRegistry == Init /\ [][NextRegistry]_vars

(***************************************************************************)
(* Properties.                                                             *)
(***************************************************************************)
Reward == [sender |-> "0", recipient |-> node_identifier, amount |-> PyInt(1)]

Store == [blocks |-> blocks, txs |-> txs]

\* the chains load_chain_from_db may return in the current state
Loadable == {load_chain_from_db(Store, order) : order \in order_by_idx(blocks, 1..Len(blocks))}

\* Python's == on transactions, blocks and chains: 1 == 1.0
tx_eq(s, t) ==
    s.sender = t.sender /\ s.recipient = t.recipient /\ s.amount.value = t.amount.value

block_eq(a, b) ==
    /\ a.index = b.index /\ a.timestamp = b.timestamp /\ a.proof = b.proof
    /\ a.previous_hash = b.previous_hash
    /\ Len(a.transactions) = Len(b.transactions)
    /\ \A k \in 1..Len(a.transactions) : tx_eq(a.transactions[k], b.transactions[k])

chain_eq(c, d) == Len(c) = Len(d) /\ \A i \in 1..Len(c) : block_eq(c[i], d[i])

\* C1: in every state reached by non-overlapping operations, every block after
\* the first carries the hash of its predecessor and a proof valid against the
\* predecessor's proof.
C1_ChainInvariant ==
    \A i \in 2..Len(chain) :
        /\ chain[i].previous_hash = hash(chain[i - 1])
        /\ valid_proof(chain[i - 1].proof, chain[i].proof)

\* C3: right after resolve has replaced the chain, load_all() yields the
\* adopted chain.
C3_ResolveResyncsStore ==
    (last.op = "resolve" /\ last.message = "Our chain was replaced")
        => \E c \in Loadable : chain_eq(c, chain)

\* C4: a restart on a store written by genesis creation and minted blocks
\* reloads a valid chain whose blocks have the field values, representations
\* and hashes they had in memory, and saving the reloaded chain again stores
\* the same rows.
RECURSIVE save_all(_, _)
save_all(db, c) == IF c = <<>> THEN db ELSE save_all(save_block(db, Head(c)), Tail(c))

C4_RestartRoundTrip ==
    (last.op = "startup" /\ last.message = "loaded")
        => /\ valid_chain(chain)
           /\ chain = last.args
           /\ \A i \in 1..Len(chain) : hash(chain[i]) = hash(last.args[i])
           /\ save_all([blocks |-> <<>>, txs |-> <<>>], chain) = Store

\* C10: GET /nodes/resolve always answers 200 with "replaced" or
\* "authoritative", whatever the peers reply.
C10_ResolveAlwaysSucceeds ==
    last.op = "resolve"
        => /\ last.status = 200
           /\ last.message \in {"Our chain was replaced", "Our chain is authoritative"}

\* C6: startup on an empty store leaves exactly the genesis block (index 1,
\* proof 100, previous_hash "1") in memory and in the store; startup on a
\* non-empty store loads the chain and writes nothing; so the store never
\* holds two blocks of index 1.
GenesisRows == {i \in 1..Len(blocks) : blocks[i].idx = 1}

C6_StartupStep ==
    (~up /\ up') =>
        IF blocks = <<>>
        THEN /\ Len(chain') = 1
             /\ chain'[1].index = 1 /\ chain'[1].proof = 100
             /\ chain'[1].previous_hash = "1" /\ chain'[1].transactions = <<>>
             /\ Len(blocks') = 1
             /\ blocks'[1] = [idx |-> 1, ts |-> chain'[1].timestamp, proof |-> 100,
                              previous_hash |-> "1"]
             /\ txs' = <<>>
        ELSE /\ blocks' = blocks /\ txs' = txs
             /\ chain' \in Loadable
             /\ chain' # <<>>

C6_SingleGenesis ==
    /\ [](last.op # "none" => Cardinality(GenesisRows) = 1)
    /\ [][C6_StartupStep]_vars

C6_Witness ==
    /\ last.op = "startup" /\ last.message = "loaded"
    /\ Len(blocks) = MaxBlocks /\ Len(chain) = MaxBlocks

\* C8: a mining request served alone appends exactly one block, whose index is
\* the previous length plus one and whose last transaction is the one reward
\* of the block; for POST /transactions/new the block holds the submitted
\* transaction, then the reward (index 2 and length 2 on a fresh chain).
Rewards(block) ==
    {k \in 1..Len(block.transactions) : block.transactions[k].sender = "0"}

Extends(c, d) == Len(d) = Len(c) + 1 /\ SubSeq(d, 1, Len(c)) = c

C8_MineStep ==
    /\ (last'.op = "mine" \/ (last'.op = "new_transaction" /\ last'.status = 201)) =>
          LET block == chain'[Len(chain')]
          IN /\ Extends(chain, chain')
             /\ block.index = Len(chain) + 1
             /\ block.transactions # <<>>
             /\ block.transactions[Len(block.transactions)] = Reward
             /\ Cardinality(Rewards(block)) = 1
    /\ (last'.op = "new_transaction" /\ last'.status = 201) =>
          LET block == chain'[Len(chain')]
          IN /\ Len(block.transactions) = 2
             /\ tx_eq(block.transactions[1], last'.args)
             /\ block.transactions[2] = Reward

C9_TamperAnyLength ==
    /\ chain = <<>> => ~valid_chain(chain)
    /\ (last.op = "tamper" /\ valid_chain(last.args)) => ~valid_chain(chain)

\* C9 (amended): the same for every chain of at least two blocks that passes
\* valid_chain; the empty chain fails.
C9_TamperTwoOrMore ==
    /\ chain = <<>> => ~valid_chain(chain)
    /\ (last.op = "tamper" /\ valid_chain(last.args) /\ Len(chain) >= 2)
          => ~valid_chain(chain)

\* the previous_hash of the first block of a three-block chain was changed
C9_Witness ==
    /\ last.op = "tamper" /\ last.status = 1
    /\ valid_chain(last.args) /\ Len(chain) = 3
    /\ chain[1].previous_hash # last.args[1].previous_hash
    /\ \A k \in 2..3 : chain[k] = last.args[k]

\* C7: new_block empties the pool and the block it appends holds exactly the
\* transactions the pool held just before, in order; a transaction recorded
\* afterwards changes no block of the chain.
C7_MintStep ==
    /\ last'.op = "mint_block" =>
          /\ current_transactions' = <<>>
          /\ Extends(chain, chain')
          /\ chain'[Len(chain')].transactions = current_transactions
    /\ last'.op = "record_transaction" =>
          /\ chain' = chain
          /\ current_transactions' = Append(current_transactions, last'.args)

C7_MintTakesPool == [][C7_MintStep]_vars

C7_Witness ==
    /\ last.op = "mint_block"
    /\ Len(chain) = 3
    /\ Len(chain[3].transactions) = MaxPool
    /\ current_transactions = <<>>

\* C5: resolve returns true exactly when some peer answers with a chain that
\* passes valid_chain and is longer than the local chain, and the local chain
\* is then the longest such chain.
Qualifying(resp, c) ==
    {n \in DOMAIN resp :
        /\ resp[n].kind = "json"
        /\ valid_chain(resp[n].chain)
        /\ Len(resp[n].chain) > Len(c)}

C5_ResolveStep ==
    last'.op = "resolve" =>
        LET resp == last'.args
            Q == Qualifying(resp, chain)
        IN /\ (last'.message = "Our chain was replaced") <=> (Q # {})
           /\ (last'.message = "Our chain was replaced") =>
                 \E n \in Q : /\ chain' = resp[n].chain
                              /\ \A m \in Q : Len(resp[m].chain) <= Len(chain')

C5_LongestValidChainWins == [][C5_ResolveStep]_vars

\* C2: however two mining requests interleave, no two blocks of the chain
\* have the same index and every mined block holds exactly one reward.
C2_NoDuplicateIndexOrLostReward ==
    /\ \A i \in 1..Len(chain) : \A j \in 1..Len(chain) :
          i # j => chain[i].index # chain[j].index
    /\ \A i \in 2..Len(chain) : Cardinality(Rewards(chain[i])) = 1

\* C11: when no peer answers with a chain that passes valid_chain under a
\* reported length above the local one, GET /nodes/resolve answers
\* "authoritative" (resolve_conflicts returned False) and the chain, the pool,
\* the registry and the store are what they were.
ReportedQualifying(resp, c) ==
    {n \in DOMAIN resp :
        /\ resp[n].kind = "json"
        /\ Truthy(resp[n].length)
        /\ resp[n].length[1] > Len(c)
        /\ valid_chain(resp[n].chain)}

C11_ResolveStep ==
    (last'.op = "resolve" /\ ReportedQualifying(last'.args, chain) = {}) =>
        /\ last'.status = 200
        /\ last'.message = "Our chain is authoritative"
        /\ UNCHANGED <<chain, current_transactions, nodes, blocks, txs>>

C11_NoQualifyingNoChange == [][C11_ResolveStep]_vars


\* C12: calling save_block a second time with the same block leaves the store,
\* and so every result of load_chain_from_db, as the first call left it.
C12_SaveAgainStep ==
    last'.op = "save_again" =>
        /\ blocks' = blocks
        /\ txs' = txs
        /\ Loadable' = Loadable

C12_SaveIdempotent == [][C12_SaveAgainStep]_vars


\* C13: the proof proof_of_work returns for a last_proof passes valid_proof
\* against it, and no smaller natural number does.
C13_SolveMinimal ==
    last.op = "proof_of_work" =>
        /\ last.status \in Nat
        /\ valid_proof(last.args, last.status)
        /\ \A q \in 0..(last.status - 1) : ~valid_proof(last.args, q)

\* a search that went past several failing proofs
C13_Witness ==
    /\ last.op = "proof_of_work"
    /\ last.args >= 100
    /\ last.status >= 2


\* C14: register_node adds scheme://host:port of the address it is given (a
\* bare host:port gets the scheme http, a path is dropped), adds nothing when
\* that form is registered already, and leaves the chain, the pool and the
\* store alone.
NormalForm(address) ==
    CASE address \in {"192.168.1.5:5000", "http://192.168.1.5:5000"} ->
            "http://192.168.1.5:5000"
      [] address = "http://10.0.0.2:5000/chain" -> "http://10.0.0.2:5000"
      [] address \in {"localhost:5000", "http://localhost:5000/"} ->
            "http://localhost:5000"

C14_RegisterStep ==
    last'.op = "register_node" =>
        /\ nodes' = nodes \cup {NormalForm(last'.args)}
        /\ NormalForm(last'.args) \in nodes => nodes' = nodes
        /\ UNCHANGED <<chain, current_transactions, blocks, txs>>

C14_RegisterNormalizes ==
    /\ [][C14_RegisterStep]_vars
    /\ [](nodes \subseteq {NormalForm(a) : a \in Addresses})

\* the bare form was registered while the registry held that peer already,
\* with a transaction pending
C14_Witness ==
    /\ last.op = "register_node"
    /\ last.args = "192.168.1.5:5000"
    /\ nodes = {"http://192.168.1.5:5000", "http://10.0.0.2:5000"}
    /\ last.status = 2
    /\ current_transactions # <<>>
    /\ chain # <<>>


\* C15: in every state the block at (1-based) position i of the chain has
\* index i, so that the index of the next block, len(chain) + 1, is the
\* head's index plus one.
C15_SequentialIndices ==
    /\ \A i \in 1..Len(chain) : chain[i].index = i
    /\ chain # <<>> => Len(chain) + 1 = chain[Len(chain)].index + 1


\* C16: with one mining request and one resolve running at a time, however
\* their statements interleave, the block the mining request appends carries
\* the hash of the block before it in the chain and a proof valid against
\* that block's proof, and the chain invariant holds in every state.
C16_AppendStep ==
    (pc[Miner] = "append" /\ pc'[Miner] = "save") =>
        LET n == Len(chain')
        IN /\ n >= 2
           /\ chain'[n].previous_hash = hash(chain'[n - 1])
           /\ valid_proof(chain'[n - 1].proof, chain'[n].proof)

C16_MineAtomicWithResolve ==
    /\ [][C16_AppendStep]_vars
    /\ [](\A i \in 2..Len(chain) :
             /\ chain[i].previous_hash = hash(chain[i - 1])
             /\ valid_proof(chain[i - 1].proof, chain[i].proof))


\* C17: the index new_transaction returns is the index of the block into
\* which the next new_block puts the transaction.
C17_MintStep ==
    (last.op = "record_transaction" /\ last'.op = "mint_block") =>
        LET block == chain'[Len(chain')]
        IN /\ block.transactions # <<>>
           /\ block.transactions[Len(block.transactions)] = last.args
           /\ block.index = last.status

C17_ReturnedIndexIsBlockIndex == [][C17_MintStep]_vars


\* C18: while the process runs (startup has completed) the chain holds at
\* least one block, whatever requests were served and whatever the peer
\* replied, so last_block (chain[-1]) is defined.
C18_NonEmptyAfterStartup == up => Len(chain) >= 1

\* the chain was replaced by a peer's, and the store still holds one block
C18_Witness ==
    /\ up
    /\ last.op = "resolve"
    /\ last.message = "Our chain was replaced"
    /\ Len(chain) = MaxPeerLen
    /\ Len(blocks) = 1


\* C19: while the process runs no request makes the chain shorter, and a
\* resolve that replaces the chain leaves it with more blocks than before.
C19_LengthStep ==
    /\ (up /\ up') => Len(chain') >= Len(chain)
    /\ (last'.op = "resolve" /\ last'.message = "Our chain was replaced")
          => Len(chain') > Len(chain)

C19_LengthNeverDecreases == [][C19_LengthStep]_vars


\* C20: with requests served one at a time, the pool is empty between
\* requests.
C20_PoolEmptyAtRest == current_transactions = <<>>

====
